---- MODULE Spec2Model ----
(***************************************************************************)
(* State-machine model of the BlindAI python client                        *)
(* (src/client/blindai/client.py): the two-phase channel bootstrap of      *)
(* BlindAiConnection, its upload_model / run_model / delete_model / close  *)
(* operations, and the validate procedures of UploadModelResponse and      *)
(* RunModelResponse.                                                       *)
(*                                                                         *)
(* Five specifications share the module:                                   *)
(*   Spec   the life of one BlindAiConnection (constructor, operations,    *)
(*          close), every step of the constructor that talks to the        *)
(*          outside being one action;                                      *)
(*   SpecV  validate applied to a stored response, possibly after one      *)
(*          byte position of its payload was changed;                      *)
(*   SpecP  a response saved with as_bytes, loaded with load_from_bytes    *)
(*          and validated;                                                 *)
(*   SpecC  threads calling the operations and close() on one open         *)
(*          session, one statement of the wrapper or of close() per step;  *)
(*   SpecT  the output tensors RunModelResponse builds from a run payload. *)
(*                                                                         *)
(* Python's None is the string "None"; exceptions are named by their       *)
(* class, SignatureError together with its message.                        *)
(***************************************************************************)
EXTENDS Integers, Sequences, FiniteSets, TLC

\* ------------------------------------------------------------------ bounds

\* Number of operation calls (upload/run/delete/close) made on one session.
MaxCalls == 3

\* Largest number of input tensors in one run request.
MaxTensors == 2

\* Number of threads that call into one open session at the same time.
NThreads == 2

\* ------------------------------------------------------- values and codecs

BoolSet == {TRUE, FALSE}

\* Public keys, certificates (DER as served, PEM as used), policies, evidence.
Keys == {"kE", "kM"}
DerCerts == {"derE", "derM"}
Policies == {"polA", "polB"}
Evidences == {"evA", "evB", "evBad"}

\* encode_certificate: DER certificate of GetCertificate -> PEM.
encode_certificate(der) == IF der = "derE" THEN "pemE" ELSE "pemM"

\* get_enclave_signing_key: the public key of a PEM certificate.
get_enclave_signing_key(pem) == IF pem = "pemE" THEN "kE" ELSE "kM"

\* Policy.from_file: the policy a file holds, or the error opening it raises.
Policy_from_file(path) ==
  CASE path = "None" -> "TypeError"
    [] path = "missing" -> "FileNotFoundError"
    [] path = "fileA" -> "polA"
    [] path = "fileB" -> "polB"

\* verify_dcap_attestation(quote, collateral, enclave_held_data): the claims
\* of a quote whose signature chain and collateral check out, else the error.
verify_dcap_attestation(att) ==
  CASE att = "evA" -> [ok |-> TRUE, sgx_mrenclave |-> "mrA", server_cert |-> "pemE"]
    [] att = "evB" -> [ok |-> TRUE, sgx_mrenclave |-> "mrB", server_cert |-> "pemM"]
    [] OTHER -> [ok |-> FALSE, sgx_mrenclave |-> "None", server_cert |-> "None"]

\* verify_claims(claims, policy): "ok" when the claims match the policy,
\* else the error raised (reading a field of a None policy fails first).
verify_claims(claims, policy) ==
  CASE policy = "None" -> "AttributeError"
    [] policy = "polA" /\ claims.sgx_mrenclave = "mrA" -> "ok"
    [] policy = "polB" /\ claims.sgx_mrenclave = "mrB" -> "ok"
    [] OTHER -> "AttestationError"

\* supported_server_version: same major.minor as the client's own version.
AppVersion == <<0, 5, 0>>
Versions == {<<0, 5, 0>>, <<0, 5, 1>>, <<0, 4, 0>>}
NoVersion == <<>>
supported_server_version(v) == v[1] = AppVersion[1] /\ v[2] = AppVersion[2]

Errors == {"TypeError", "FileNotFoundError", "AttestationError", "AttributeError"}

\* ------------------------------------------------------------ _validate_quote

\* _validate_quote: the enclave signing key of verified evidence, or the
\* error raised on the way.
ValidateQuote(attestation, policy) ==
  LET claims == verify_dcap_attestation(attestation)
  IN IF ~claims.ok THEN "AttestationError"
     ELSE IF verify_claims(claims, policy) # "ok" THEN verify_claims(claims, policy)
     ELSE get_enclave_signing_key(claims.server_cert)

\* ------------------------------------------------ payload, hash, signature

\* hashlib.sha256 as a collision-free digest: it keeps apart exactly the byte
\* strings that differ, and a digest is never a byte string itself.
Sha256(bytes) == [digest_of |-> bytes]

\* Model files (their bytes) and the model ids the server hands out.
Models == {<<7>>, <<8>>}
ModelIds == {"id1", "id2"}

\* The wire form of a Payload message holding one send_model_payload or
\* run_model_payload: a length prefix, then the digest field (model_hash or
\* input_hash) and the model_id field. Each of the three positions stands for
\* the bytes of that part.
EncodePayload(digest, model_id) == <<2, digest, model_id>>

\* PbPayload.FromString: the fields of a well-formed message; a length prefix
\* that does not match the bytes that follow does not parse (DecodeError).
PbPayload_FromString(b) ==
  IF Len(b) = 3 /\ b[1] = Len(b) - 1
  THEN [ok |-> TRUE, digest |-> b[2], model_id |-> b[3]]
  ELSE [ok |-> FALSE, digest |-> Sha256(<<>>), model_id |-> "None"]

\* An Ed25519 signature names the key pair that made it and the signed bytes.
\* NoSig is None: no signature at all.
NoSig == [signed |-> FALSE, k |-> "None", p |-> <<>>]
\* The empty byte string: what a bytes field of a message holds when the
\* sender set none. It is a value (signed: not None) no key verifies.
EmptySig == [signed |-> TRUE, k |-> "None", p |-> <<>>]
Sign(k, payload) == [signed |-> TRUE, k |-> k, p |-> payload]

\* Ed25519PublicKey.verify(signature, data): TRUE unless InvalidSignature.
Ed25519Verify(key, signature, payload) ==
  signature.signed /\ signature.k \in Keys /\ signature.k = key /\ signature.p = payload

\* ------------------------------------------------------------- TensorCodec

DTypes == {"U8", "U16"}

\* dt_per_type: bytes per element.
dt_per_type(dt) == IF dt = "U8" THEN 1 ELSE 2

\* Little-endian fixed-width bytes of one element.
ElementBytes(v, dt) == IF dt_per_type(dt) = 1 THEN <<v % 256>> ELSE <<v % 256, v \div 256>>

RECURSIVE FlatBytes(_, _)
FlatBytes(tensor, dt) ==
  IF tensor = <<>> THEN <<>>
  ELSE ElementBytes(Head(tensor), dt) \o FlatBytes(Tail(tensor), dt)

\* Largest chunk create_byte_chunk yields (scaled down).
ChunkSize == 2

RECURSIVE create_byte_chunk(_)
create_byte_chunk(data) ==
  IF data = <<>> THEN <<>>
  ELSE IF Len(data) <= ChunkSize THEN <<data>>
  ELSE <<SubSeq(data, 1, ChunkSize)>> \o create_byte_chunk(SubSeq(data, ChunkSize + 1, Len(data)))

\* serialize_tensor: the chunks of the fixed-width encoding of a flat tensor.
serialize_tensor(tensor, dt) == create_byte_chunk(FlatBytes(tensor, dt))

RECURSIVE ConcatAll(_)
ConcatAll(chunks) == IF chunks = <<>> THEN <<>> ELSE Head(chunks) \o ConcatAll(Tail(chunks))

\* The bytes fed to hash.update, in order: for each tensor i, each chunk of
\* serialize_tensor(tensor, dtype[i]).
RECURSIVE HashedBytes(_, _)
HashedBytes(tensors, dtype) ==
  IF tensors = <<>> THEN <<>>
  ELSE ConcatAll(serialize_tensor(Head(tensors), Head(dtype)))
         \o HashedBytes(Tail(tensors), Tail(dtype))

\* The digest RunModelResponse.validate recomputes from the caller's inputs.
InputHash(tensors, dtype) == Sha256(HashedBytes(tensors, dtype))

\* --------------------------------------------------------- SignedResponse

is_simulation_mode(a) == a.attestation = "None"

is_signed(a) == a.signature.signed

\* What a validate call did: how it ended, the key it held at the signature
\* step, whether _validate_quote ran and whether verify() was called and passed.
Ended(outcome, key, quote_run, sig_checked) ==
  [outcome |-> outcome, key |-> key, quote_run |-> quote_run, sig_checked |-> sig_checked]

SigNotSigned == "SignatureError: Response is not signed"
SigSimulation == "SignatureError: Response was produced using simulation mode"
SigInvalid == "SignatureError: Invalid signature"
SigModelHash == "SignatureError: Invalid returned model_hash"
SigInputHash == "SignatureError: Invalid returned input_hash"
SigModelId == "SignatureError: Invalid returned model_id"
SignatureErrors == {SigNotSigned, SigSimulation, SigInvalid, SigModelHash, SigInputHash, SigModelId}

\* A variant of the shared steps without the simulation-mode gate.
ValidateCommonNoGate(a, policy_file, policy, validate_quote, enclave_signing_key, allow_simulation_mode) ==
  IF ~is_signed(a) THEN Ended(SigNotSigned, enclave_signing_key, FALSE, FALSE)
  ELSE
    LET quote == ~is_simulation_mode(a) /\ validate_quote
        pol == IF quote /\ policy_file # "None" THEN Policy_from_file(policy_file) ELSE policy
    IN IF pol \in Errors THEN Ended(pol, enclave_signing_key, FALSE, FALSE)
       ELSE
         LET key == IF quote THEN ValidateQuote(a.attestation, pol) ELSE enclave_signing_key
         IN IF key \in Errors THEN Ended(key, "None", TRUE, FALSE)
            ELSE IF ~PbPayload_FromString(a.payload).ok THEN Ended("DecodeError", key, quote, FALSE)
            ELSE IF is_simulation_mode(a) THEN Ended("go", key, quote, FALSE)
            ELSE IF key = "None" THEN Ended("AttributeError", key, quote, FALSE)
            ELSE IF ~Ed25519Verify(key, a.signature, a.payload) THEN Ended(SigInvalid, key, quote, FALSE)
            ELSE Ended("go", key, quote, TRUE)

\* Lines 284-305 of UploadModelResponse.validate, which lines 424-445 of
\* RunModelResponse.validate repeat word for word: the signed and simulation
\* gates, the policy file, the quote, the decode of the payload and the
\* signature check, in the code's order; "go" when the content checks are next.
ValidateCommon(a, policy_file, policy, validate_quote, enclave_signing_key, allow_simulation_mode) ==
  IF ~is_signed(a) THEN Ended(SigNotSigned, enclave_signing_key, FALSE, FALSE)
  ELSE IF ~allow_simulation_mode /\ is_simulation_mode(a)
  THEN Ended(SigSimulation, enclave_signing_key, FALSE, FALSE)
  ELSE
    LET quote == ~is_simulation_mode(a) /\ validate_quote
        pol == IF quote /\ policy_file # "None" THEN Policy_from_file(policy_file) ELSE policy
    IN IF pol \in Errors THEN Ended(pol, enclave_signing_key, FALSE, FALSE)
       ELSE
         LET key == IF quote THEN ValidateQuote(a.attestation, pol) ELSE enclave_signing_key
         IN IF key \in Errors THEN Ended(key, "None", TRUE, FALSE)
            ELSE IF ~PbPayload_FromString(a.payload).ok THEN Ended("DecodeError", key, quote, FALSE)
            ELSE IF is_simulation_mode(a) THEN Ended("go", key, quote, FALSE)
            ELSE IF key = "None" THEN Ended("AttributeError", key, quote, FALSE)
            ELSE IF ~Ed25519Verify(key, a.signature, a.payload) THEN Ended(SigInvalid, key, quote, FALSE)
            ELSE Ended("go", key, quote, TRUE)

\* UploadModelResponse.validate.
UploadValidate(a, model_hash, policy_file, policy, validate_quote, enclave_signing_key, allow_simulation_mode) ==
  LET c == ValidateCommon(a, policy_file, policy, validate_quote, enclave_signing_key, allow_simulation_mode)
      payload == PbPayload_FromString(a.payload)
  IN IF c.outcome # "go" THEN c
     ELSE IF model_hash # payload.digest THEN [c EXCEPT !.outcome = SigModelHash]
     ELSE [c EXCEPT !.outcome = "ok"]

\* RunModelResponse.validate.
RunValidate(a, model_id, tensors, dtype, policy_file, policy, validate_quote, enclave_signing_key, allow_simulation_mode) ==
  LET c == ValidateCommon(a, policy_file, policy, validate_quote, enclave_signing_key, allow_simulation_mode)
      payload == PbPayload_FromString(a.payload)
  IN IF c.outcome # "go" THEN c
     ELSE IF InputHash(tensors, dtype) # payload.digest THEN [c EXCEPT !.outcome = SigInputHash]
     ELSE IF model_id # payload.model_id THEN [c EXCEPT !.outcome = SigModelId]
     ELSE [c EXCEPT !.outcome = "ok"]

\* ------------------------------------------------------------------- state

VARIABLES
  args,                 \* the constructor's arguments: simulation, policy, certificate
  pc,                   \* where the constructor stands; "open" once it returned
  exc,                  \* the exception the constructor raised, or "None"
  disc,                 \* the discovery channel: "none", "open" or "closed"
  attch,                \* the attested channel: "none", "open" or "closed"
  trust_root,           \* root certificate of the attested channel's credentials
  urpcs,                \* the calls made on the discovery channel, in order
  nverify,              \* how many times the attestation verifier was run
  server_cert,          \* the constructor's local server_cert
  rpc_error,            \* a call on the discovery channel raised RpcError
  simulation_mode,      \* BlindAiConnection.simulation_mode
  policy,               \* BlindAiConnection.policy
  attestation,          \* BlindAiConnection.attestation
  enclave_signing_key,  \* BlindAiConnection.enclave_signing_key
  server_version,       \* BlindAiConnection.server_version
  stub,                 \* BlindAiConnection._stub
  channel,              \* BlindAiConnection._channel
  closed,               \* BlindAiConnection.closed
  calls,                \* operation calls made so far
  rpcs,                 \* calls issued on the attested channel so far
  last,                 \* the last operation call: op, sign, how it ended
  req,                  \* the last operation call's own arguments and its RPC
  ret,                  \* the response object the last call returned, or NoArt
  sent,                 \* the request messages the last call handed to its stub method
  art,                  \* SpecV: the stored response (payload, signature, attestation)
  orig,                 \* SpecV: its payload as the server produced it
  vargs,                \* SpecV: the arguments of the validate call
  vres,                 \* SpecV: what the validate call did, or NoResult
  saved,                \* SpecV: the bytes as_bytes wrote and the response they are of
  thr,                  \* SpecC: each thread's call, its position and how it ended
  out                   \* SpecT: a run payload's output tensors and the Tensor objects built

bootVars == <<args, pc, exc, disc, attch, trust_root, urpcs, nverify, server_cert, rpc_error>>
fieldVars == <<simulation_mode, policy, attestation, enclave_signing_key,
               server_version, stub, channel, closed>>
opVars == <<calls, rpcs, last, req, ret, sent>>
valVars == <<art, orig, vargs, vres, saved>>
conVars == <<thr>>
outVars == <<out>>
vars == <<bootVars, fieldVars, opVars, valVars, conVars, outVars>>

NoCall == [op |-> "None", sign |-> FALSE, outcome |-> "None"]
NoResult == Ended("None", "None", FALSE, FALSE)
NoArt == [payload |-> <<>>, signature |-> NoSig, attestation |-> "None"]
NoArgs == [kind |-> "None"]

\* The class attributes of BlindAiConnection before __init__ assigns any.
FieldsInit ==
  /\ simulation_mode = FALSE
  /\ policy = "None"
  /\ attestation = "None"
  /\ enclave_signing_key = "None"
  /\ server_version = NoVersion
  /\ stub = "None"
  /\ channel = "None"
  /\ closed = FALSE

\* What a call's arguments and its RPC were: nothing before the first call.
NoReq == [data |-> <<>>, model_id |-> "None", inputs |-> <<>>, rpc |-> "None"]
Requested(data, model_id, inputs, rpc) ==
  [data |-> data, model_id |-> model_id, inputs |-> inputs, rpc |-> rpc]

\* The response object a call returns: the three fields of SignedResponse
\* (None unless sign was asked) and the model id read out of the payload.
NoRet == [payload |-> <<>>, signature |-> NoSig, attestation |-> "None", model_id |-> "None"]
Returned(payload, signature, att, model_id) ==
  [payload |-> payload, signature |-> signature, attestation |-> att, model_id |-> model_id]

\* Nothing was written with as_bytes yet.
NoSaved == [wire |-> NoArt, source |-> NoArt, loaded |-> FALSE, error |-> "None"]

ValIdle ==
  /\ art = NoArt /\ orig = <<>> /\ vargs = NoArgs /\ vres = NoResult
  /\ saved = NoSaved

\* No thread is inside a call.
ConIdle == thr = <<>>

\* No run payload is being turned into output tensors.
NoOut == [payload_tensors |-> <<>>, output_tensors |-> <<>>, built |-> FALSE]
OutIdle == out = NoOut

\* connect(addr, policy=..., certificate=..., simulation=...): the call is about
\* to run _connect_server.
Init ==
  /\ args \in [simulation : BoolSet,
               policy : {"None", "missing", "fileA", "fileB"},
               certificate : {"None", "certfile"}]
  /\ pc = "start"
  /\ exc = "None"
  /\ disc = "none"
  /\ attch = "none"
  /\ trust_root = "None"
  /\ urpcs = <<>>
  /\ nverify = 0
  /\ server_cert = "None"
  /\ rpc_error = FALSE
  /\ FieldsInit
  /\ calls = 0
  /\ rpcs = 0
  /\ last = NoCall
  /\ req = NoReq
  /\ ret = NoRet
  /\ sent = <<>>
  /\ ValIdle
  /\ ConIdle
  /\ OutIdle

\* The constructor raises e: no connection object is returned.
Raise(e) == pc' = "failed" /\ exc' = e

\* ------------------------------------------------------------ _connect_server

\* A variant of lines 607-616 that goes on to connect when the policy cannot
\* be loaded.
BootLoadPolicyDeferred ==
  /\ pc = "start"
  /\ simulation_mode' = args.simulation
  /\ policy' = IF ~args.simulation /\ Policy_from_file(args.policy) \notin Errors
               THEN Policy_from_file(args.policy) ELSE policy
  /\ pc' = "creds"
  /\ exc' = exc
  /\ UNCHANGED <<args, rpc_error, disc, attch, trust_root, urpcs, nverify, server_cert>>
  /\ UNCHANGED <<attestation, enclave_signing_key, server_version, stub, channel, closed>>
  /\ UNCHANGED <<opVars, valVars, conVars, outVars>>

\* A variant of lines 607-616 in which a certificate argument switches the
\* simulation path off.
BootLoadPolicyCertificateWins ==
  /\ pc = "start"
  /\ simulation_mode' = (args.simulation /\ args.certificate = "None")
  /\ IF ~simulation_mode'
     THEN LET p == Policy_from_file(args.policy)
          IN IF p \in Errors
             THEN /\ Raise(p)
                  /\ policy' = policy
             ELSE /\ policy' = p
                  /\ pc' = "creds"
                  /\ exc' = exc
     ELSE /\ policy' = policy
          /\ pc' = "creds"
          /\ exc' = exc
  /\ UNCHANGED <<args, rpc_error, disc, attch, trust_root, urpcs, nverify, server_cert>>
  /\ UNCHANGED <<attestation, enclave_signing_key, server_version, stub, channel, closed>>
  /\ UNCHANGED <<opVars, valVars, conVars, outVars>>

\* Lines 607-616: the mode flags, then the policy file in hardware mode.
BootLoadPolicy ==
  /\ pc = "start"
  /\ simulation_mode' = args.simulation
  /\ IF ~args.simulation
     THEN LET p == Policy_from_file(args.policy)
          IN IF p \in Errors
             THEN /\ Raise(p)
                  /\ policy' = policy
             ELSE /\ policy' = p
                  /\ pc' = "creds"
                  /\ exc' = exc
     ELSE /\ policy' = policy
          /\ pc' = "creds"
          /\ exc' = exc
  /\ UNCHANGED <<args, rpc_error, disc, attch, trust_root, urpcs, nverify, server_cert>>
  /\ UNCHANGED <<attestation, enclave_signing_key, server_version, stub, channel, closed>>
  /\ UNCHANGED <<opVars, valVars, conVars, outVars>>

\* Lines 618-640: the credentials of the discovery channel. Simulation fetches
\* the server's certificate over a socket (which may fail); hardware mode reads
\* the certificate file.
BootUntrustedCreds ==
  /\ pc = "creds"
  /\ IF simulation_mode
     THEN \E reached \in BoolSet :
            IF reached THEN pc' = "connect" /\ exc' = exc
            ELSE Raise("ConnectionError")
     ELSE IF args.certificate = "None" THEN Raise("TypeError")
          ELSE pc' = "connect" /\ exc' = exc
  /\ UNCHANGED <<args, rpc_error, disc, attch, trust_root, urpcs, nverify, server_cert>>
  /\ UNCHANGED <<fieldVars, opVars, valVars, conVars, outVars>>

\* Lines 645-650: the discovery channel and its stub.
BootOpenDiscovery ==
  /\ pc = "connect"
  /\ disc' = "open"
  /\ pc' = "info"
  /\ UNCHANGED <<args, rpc_error, exc, attch, trust_root, urpcs, nverify, server_cert>>
  /\ UNCHANGED <<fieldVars, opVars, valVars, conVars, outVars>>

\* Lines 694-696: an RpcError inside the try block closes the channel the local
\* variable names (here the discovery channel) and raises ConnectionError.
RpcErrorHandler ==
  /\ rpc_error' = TRUE
  /\ disc' = "closed"
  /\ Raise("ConnectionError")

\* A variant of GetServerInfo's step that accepts every version.
BootGetServerInfoAnyVersion ==
  /\ pc = "info"
  /\ urpcs' = Append(urpcs, "GetServerInfo")
  /\ \/ /\ RpcErrorHandler
        /\ server_version' = server_version
     \/ \E v \in Versions :
          /\ server_version' = v
          /\ pc' = "fetch" /\ exc' = exc
          /\ disc' = disc /\ rpc_error' = rpc_error
  /\ UNCHANGED <<args, attch, trust_root, nverify, server_cert>>
  /\ UNCHANGED <<simulation_mode, policy, attestation, enclave_signing_key, stub, channel, closed>>
  /\ UNCHANGED <<opVars, valVars, conVars, outVars>>

\* Lines 652-657: GetServerInfo and the version check.
BootGetServerInfo ==
  /\ pc = "info"
  /\ urpcs' = Append(urpcs, "GetServerInfo")
  /\ \/ /\ RpcErrorHandler
        /\ server_version' = server_version
     \/ \E v \in Versions :
          /\ server_version' = v
          /\ IF ~supported_server_version(v)
             THEN Raise("VersionError")
             ELSE pc' = "fetch" /\ exc' = exc
          /\ disc' = disc /\ rpc_error' = rpc_error
  /\ UNCHANGED <<args, attch, trust_root, nverify, server_cert>>
  /\ UNCHANGED <<simulation_mode, policy, attestation, enclave_signing_key, stub, channel, closed>>
  /\ UNCHANGED <<opVars, valVars, conVars, outVars>>

\* Lines 659-664: simulation mode takes the certificate GetCertificate returns.
BootGetCertificate ==
  /\ pc = "fetch"
  /\ simulation_mode
  /\ urpcs' = Append(urpcs, "GetCertificate")
  /\ \/ /\ RpcErrorHandler
        /\ server_cert' = server_cert
     \/ \E der \in DerCerts :
          /\ server_cert' = encode_certificate(der)
          /\ pc' = "close_discovery" /\ exc' = exc
          /\ disc' = disc /\ rpc_error' = rpc_error
  /\ UNCHANGED <<args, attch, trust_root, nverify>>
  /\ UNCHANGED <<fieldVars, opVars, valVars, conVars, outVars>>

\* A variant of the hardware step that continues when verification fails.
BootGetQuoteIgnoreFailure ==
  /\ pc = "fetch"
  /\ ~simulation_mode
  /\ urpcs' = Append(urpcs, "GetSgxQuoteWithCollateral")
  /\ \/ /\ RpcErrorHandler
        /\ UNCHANGED <<attestation, nverify, server_cert>>
     \/ \E ev \in Evidences :
          /\ attestation' = ev
          /\ nverify' = nverify + 1
          /\ server_cert' = IF verify_dcap_attestation(ev).ok
                            THEN verify_dcap_attestation(ev).server_cert ELSE "pemM"
          /\ pc' = "close_discovery" /\ exc' = exc
          /\ disc' = disc /\ rpc_error' = rpc_error
  /\ UNCHANGED <<args, attch, trust_root>>
  /\ UNCHANGED <<simulation_mode, policy, enclave_signing_key, server_version, stub, channel, closed>>
  /\ UNCHANGED <<opVars, valVars, conVars, outVars>>

\* A variant of the hardware step that verifies the quote but never checks
\* the claims against the policy.
BootGetQuoteNoClaimsCheck ==
  /\ pc = "fetch"
  /\ ~simulation_mode
  /\ urpcs' = Append(urpcs, "GetSgxQuoteWithCollateral")
  /\ \/ /\ RpcErrorHandler
        /\ UNCHANGED <<attestation, nverify, server_cert>>
     \/ \E ev \in Evidences :
          LET claims == verify_dcap_attestation(ev)
          IN /\ attestation' = ev
             /\ nverify' = nverify + 1
             /\ IF ~claims.ok
                THEN Raise("AttestationError") /\ server_cert' = server_cert
                ELSE /\ server_cert' = claims.server_cert
                     /\ pc' = "close_discovery" /\ exc' = exc
             /\ disc' = disc /\ rpc_error' = rpc_error
  /\ UNCHANGED <<args, attch, trust_root>>
  /\ UNCHANGED <<simulation_mode, policy, enclave_signing_key, server_version, stub, channel, closed>>
  /\ UNCHANGED <<opVars, valVars, conVars, outVars>>

\* Lines 666-681: hardware mode fetches the quote, verifies it, checks the
\* claims against the policy and takes the certificate of the claims.
BootGetQuote ==
  /\ pc = "fetch"
  /\ ~simulation_mode
  /\ urpcs' = Append(urpcs, "GetSgxQuoteWithCollateral")
  /\ \/ /\ RpcErrorHandler
        /\ UNCHANGED <<attestation, nverify, server_cert>>
     \/ \E ev \in Evidences :
          LET claims == verify_dcap_attestation(ev)
          IN /\ attestation' = ev
             /\ nverify' = nverify + 1
             /\ IF ~claims.ok
                THEN Raise("AttestationError") /\ server_cert' = server_cert
                ELSE IF verify_claims(claims, policy) # "ok"
                THEN Raise(verify_claims(claims, policy)) /\ server_cert' = server_cert
                ELSE /\ server_cert' = claims.server_cert
                     /\ pc' = "close_discovery" /\ exc' = exc
             /\ disc' = disc /\ rpc_error' = rpc_error
  /\ UNCHANGED <<args, attch, trust_root>>
  /\ UNCHANGED <<simulation_mode, policy, enclave_signing_key, server_version, stub, channel, closed>>
  /\ UNCHANGED <<opVars, valVars, conVars, outVars>>

\* A variant of lines 683-684 that derives the key and leaves the discovery
\* channel open.
BootCloseDiscoveryLeaveOpen ==
  /\ pc = "close_discovery"
  /\ disc' = disc
  /\ enclave_signing_key' = get_enclave_signing_key(server_cert)
  /\ pc' = "attested"
  /\ UNCHANGED <<args, rpc_error, exc, attch, trust_root, urpcs, nverify, server_cert>>
  /\ UNCHANGED <<simulation_mode, policy, attestation, server_version, stub, channel, closed>>
  /\ UNCHANGED <<opVars, valVars, conVars, outVars>>

\* Lines 683-684: close the discovery channel, derive the signing key.
BootCloseDiscovery ==
  /\ pc = "close_discovery"
  /\ disc' = "closed"
  /\ enclave_signing_key' = get_enclave_signing_key(server_cert)
  /\ pc' = "attested"
  /\ UNCHANGED <<args, rpc_error, exc, attch, trust_root, urpcs, nverify, server_cert>>
  /\ UNCHANGED <<simulation_mode, policy, attestation, server_version, stub, channel, closed>>
  /\ UNCHANGED <<opVars, valVars, conVars, outVars>>

\* Lines 685-692: the attested channel, rooted in server_cert, and its stub.
BootOpenAttested ==
  /\ pc = "attested"
  /\ trust_root' = server_cert
  /\ attch' = "open"
  /\ stub' = "ExchangeStub"
  /\ channel' = "attested"
  /\ pc' = "open"
  /\ UNCHANGED <<args, rpc_error, exc, disc, urpcs, nverify, server_cert>>
  /\ UNCHANGED <<simulation_mode, policy, attestation, enclave_signing_key, server_version, closed>>
  /\ UNCHANGED <<opVars, valVars, conVars, outVars>>

\* ------------------------------------------------------- requests, replies

\* Flat tensors a caller passes, each with its datum type.
TensorVals == {<<1>>, <<1, 1>>}
TypedTensors == TensorVals \X DTypes

\* A run request's inputs: 1..MaxTensors typed tensors. TensorsOf is the
\* tensors argument, DtypeOf the dtype list that goes with it.
InputSets == UNION {[1..n -> TypedTensors] : n \in 1..MaxTensors}
TensorsOf(u) == [i \in 1..Len(u) |-> u[i][1]]
DtypeOf(u) == [i \in 1..Len(u) |-> u[i][2]]

\* The inputs the session specification and the control-flow cases use.
SmallInputs == {<< <<(<<1>>), "U8">>, <<(<<1>>), "U8">> >>,
                << <<(<<1, 1>>), "U8">> >>,
                << <<(<<1>>), "U16">> >>}

\* The inputs run_model is called with: those, and two tensors of which the
\* first serializes to more than one chunk.
RunInputs == SmallInputs \cup {<< <<(<<1, 1>>), "U16">>, <<(<<1>>), "U8">> >>}

SigsOver(payload) == {EmptySig} \cup {Sign(k, payload) : k \in Keys}

\* What the host may answer to SendModel / RunModel: a well-formed payload
\* or one whose length prefix is off, unsigned or signed by either key.
ReplyPayloads(digests) ==
  {EncodePayload(d, id) : d \in digests, id \in ModelIds}
    \cup {<<3, d, "id1">> : d \in digests}
Replies(digests) ==
  UNION {{[payload |-> p, signature |-> sg] : sg \in SigsOver(p)} : p \in ReplyPayloads(digests)}

ModelHashes == {Sha256(m) : m \in Models}
SmallInputHashes == {InputHash(TensorsOf(u), DtypeOf(u)) : u \in SmallInputs}

Called(op, sign, outcome) == [op |-> op, sign |-> sign, outcome |-> outcome]

\* ---------------------------------------------------------------- operations

\* One request message as the stub method receives it: the method, whether
\* it carries client_info, the index of the tensor it is about (0 where there
\* is none) and its bytes.
Message(method, client_info, index, chunk) ==
  [method |-> method, client_info |-> client_info, index |-> index, chunk |-> chunk]

\* Lines 747-763: one PbSendModelRequest per chunk of the model's bytes.
SendModelStream(data, sign) ==
  LET chunks == create_byte_chunk(data)
  IN [n \in 1..Len(chunks) |-> Message("SendModel", TRUE, 0, chunks[n])]

\* The messages of tensors i.. in index order, each tensor's chunks in the
\* order serialize_tensor yields them (the generator of lines 844-862).
RECURSIVE RunModelMessages(_, _, _)
RunModelMessages(tensors, dtype, i) ==
  IF i > Len(tensors) THEN <<>>
  ELSE LET chunks == serialize_tensor(tensors[i], dtype[i])
       IN [n \in 1..Len(chunks) |-> Message("RunModel", TRUE, i - 1, chunks[n])]
            \o RunModelMessages(tensors, dtype, i + 1)

\* A variant of the generator that sends the tensors last to first.
RECURSIVE RunModelMessagesReversed(_, _, _)
RunModelMessagesReversed(tensors, dtype, i) ==
  IF i > Len(tensors) THEN <<>>
  ELSE LET chunks == serialize_tensor(tensors[i], dtype[i])
       IN RunModelMessagesReversed(tensors, dtype, i + 1)
            \o [n \in 1..Len(chunks) |-> Message("RunModel", TRUE, i - 1, chunks[n])]
RunModelStreamReversed(model_id, u, sign) ==
  RunModelMessagesReversed(TensorsOf(u), DtypeOf(u), 1)

\* Lines 841-863: the request stream of run_model.
RunModelStream(model_id, u, sign) == RunModelMessages(TensorsOf(u), DtypeOf(u), 1)

\* Line 895: PbDeleteModelRequest(model_id=model_id), the one request of
\* delete_model; no client_info is set on it.
DeleteModelRequest(model_id) == <<Message("DeleteModel", FALSE, 0, <<>>)>>

\* A variant of the wrapper's check that never refuses.
ConnClosedNever == FALSE

\* raise_exception_if_conn_closed (lines 471-483): the wrapper's check.
ConnClosed == closed

\* upload_model (lines 698-784) behind the wrapper: SendModel, the decode of
\* the reply's payload and, with sign, validate against sha256 of the model.
\* The object is returned only when nothing was raised.
UploadModel ==
  /\ pc = "open"
  /\ calls < MaxCalls
  /\ calls' = calls + 1
  /\ \E sign \in BoolSet, data \in Models :
       IF ConnClosed
       THEN /\ last' = Called("upload_model", sign, "ValueError")
            /\ sent' = <<>>
            /\ req' = Requested(data, "None", <<>>, "None")
            /\ ret' = NoRet
            /\ rpcs' = rpcs
       ELSE /\ rpcs' = rpcs + 1
            /\ sent' = SendModelStream(data, sign)
            /\ \/ /\ last' = Called("upload_model", sign, "ConnectionError")
                  /\ req' = Requested(data, "None", <<>>, "RpcError")
                  /\ ret' = NoRet
               \/ \E r \in Replies(ModelHashes) :
                    LET obj == [payload |-> r.payload, signature |-> r.signature,
                                attestation |-> attestation]
                        payload == PbPayload_FromString(r.payload)
                        outcome ==
                          IF ~payload.ok THEN "DecodeError"
                          ELSE IF sign
                          THEN UploadValidate(obj, Sha256(data), "None", "None", FALSE,
                                              enclave_signing_key, simulation_mode).outcome
                          ELSE "ok"
                    IN /\ last' = Called("upload_model", sign, outcome)
                       /\ req' = Requested(data, "None", <<>>, "ok")
                       /\ ret' = IF outcome # "ok" THEN NoRet
                                 ELSE IF sign
                                 THEN Returned(r.payload, r.signature, attestation, payload.model_id)
                                 ELSE Returned(<<>>, NoSig, "None", payload.model_id)
  /\ UNCHANGED <<bootVars, fieldVars, valVars, conVars, outVars>>

\* run_model (lines 786-877) behind the wrapper: RunModel, then
\* RunModelResponse.__init__ (lines 365-393), which decodes the payload and,
\* with sign, validates it against the payload's own model id and the inputs.
RunModel ==
  /\ pc = "open"
  /\ calls < MaxCalls
  /\ calls' = calls + 1
  /\ \E sign \in BoolSet, model_id \in ModelIds, u \in RunInputs :
       IF ConnClosed
       THEN /\ last' = Called("run_model", sign, "ValueError")
            /\ sent' = <<>>
            /\ req' = Requested(<<>>, model_id, u, "None")
            /\ ret' = NoRet
            /\ rpcs' = rpcs
       ELSE /\ rpcs' = rpcs + 1
            /\ sent' = RunModelStream(model_id, u, sign)
            /\ \/ /\ last' = Called("run_model", sign, "ConnectionError")
                  /\ req' = Requested(<<>>, model_id, u, "RpcError")
                  /\ ret' = NoRet
               \/ \E r \in Replies(SmallInputHashes) :
                    LET obj == [payload |-> r.payload, signature |-> r.signature,
                                attestation |-> attestation]
                        payload == PbPayload_FromString(r.payload)
                        outcome ==
                          IF ~payload.ok THEN "DecodeError"
                          ELSE IF sign
                          THEN RunValidate(obj, payload.model_id, TensorsOf(u), DtypeOf(u),
                                           "None", "None", FALSE,
                                           enclave_signing_key, simulation_mode).outcome
                          ELSE "ok"
                    IN /\ last' = Called("run_model", sign, outcome)
                       /\ req' = Requested(<<>>, model_id, u, "ok")
                       /\ ret' = IF outcome # "ok" THEN NoRet
                                 ELSE IF sign
                                 THEN Returned(r.payload, r.signature, attestation, payload.model_id)
                                 ELSE Returned(<<>>, NoSig, "None", payload.model_id)
  /\ UNCHANGED <<bootVars, fieldVars, valVars, conVars, outVars>>

\* A variant of delete_model that issues its call a second time when the
\* first raised RpcError.
DeleteModelRetryOnce ==
  /\ pc = "open"
  /\ calls < MaxCalls
  /\ calls' = calls + 1
  /\ ret' = NoRet
  /\ \E model_id \in ModelIds :
       IF ConnClosed
       THEN /\ last' = Called("delete_model", FALSE, "ValueError")
            /\ sent' = <<>>
            /\ req' = Requested(<<>>, model_id, <<>>, "None")
            /\ rpcs' = rpcs
       ELSE \E first_failed \in BoolSet, failed \in BoolSet :
              /\ sent' = DeleteModelRequest(model_id)
              /\ rpcs' = IF first_failed THEN rpcs + 2 ELSE rpcs + 1
              /\ first_failed \/ ~failed
              /\ last' = Called("delete_model", FALSE,
                                IF failed THEN "ConnectionError" ELSE "ok")
              /\ req' = Requested(<<>>, model_id, <<>>, IF failed THEN "RpcError" ELSE "ok")
  /\ UNCHANGED <<bootVars, fieldVars, valVars, conVars, outVars>>

\* delete_model (lines 879-900) behind the wrapper.
DeleteModel ==
  /\ pc = "open"
  /\ calls < MaxCalls
  /\ calls' = calls + 1
  /\ ret' = NoRet
  /\ \E model_id \in ModelIds :
       IF ConnClosed
       THEN /\ last' = Called("delete_model", FALSE, "ValueError")
            /\ sent' = <<>>
            /\ req' = Requested(<<>>, model_id, <<>>, "None")
            /\ rpcs' = rpcs
       ELSE /\ rpcs' = rpcs + 1
            /\ sent' = DeleteModelRequest(model_id)
            /\ \E failed \in BoolSet :
                 /\ last' = Called("delete_model", FALSE,
                                   IF failed THEN "ConnectionError" ELSE "ok")
                 /\ req' = Requested(<<>>, model_id, <<>>, IF failed THEN "RpcError" ELSE "ok")
  /\ UNCHANGED <<bootVars, fieldVars, valVars, conVars, outVars>>

\* A variant of close without the test of self.closed: a second call goes on
\* to self._channel.close() with _channel already None.
CloseUnguarded ==
  /\ pc = "open"
  /\ calls < MaxCalls
  /\ calls' = calls + 1
  /\ req' = NoReq
  /\ ret' = NoRet
  /\ sent' = <<>>
  /\ IF channel # "None"
     THEN /\ last' = Called("close", FALSE, "ok")
          /\ attch' = "closed"
          /\ closed' = TRUE
          /\ channel' = "None"
          /\ stub' = "None"
          /\ policy' = "None"
          /\ server_version' = NoVersion
     ELSE /\ last' = Called("close", FALSE, "AttributeError")
          /\ UNCHANGED <<attch, closed, channel, stub, policy, server_version>>
  /\ UNCHANGED <<simulation_mode, attestation, enclave_signing_key, rpcs>>
  /\ UNCHANGED <<args, rpc_error, pc, exc, disc, trust_root, urpcs, nverify, server_cert>>
  /\ UNCHANGED <<valVars, conVars, outVars>>

\* A variant of close that closes the channel and sets the flag but keeps
\* the _channel and _stub handles.
CloseKeepHandles ==
  /\ pc = "open"
  /\ calls < MaxCalls
  /\ calls' = calls + 1
  /\ last' = Called("close", FALSE, "ok")
  /\ req' = NoReq
  /\ ret' = NoRet
  /\ sent' = <<>>
  /\ IF ~closed
     THEN /\ attch' = "closed"
          /\ closed' = TRUE
          /\ policy' = "None"
          /\ server_version' = NoVersion
     ELSE UNCHANGED <<attch, closed, policy, server_version>>
  /\ UNCHANGED <<channel, stub, simulation_mode, attestation, enclave_signing_key, rpcs>>
  /\ UNCHANGED <<args, rpc_error, pc, exc, disc, trust_root, urpcs, nverify, server_cert>>
  /\ UNCHANGED <<valVars, conVars, outVars>>

\* close (lines 902-910).
Close ==
  /\ pc = "open"
  /\ calls < MaxCalls
  /\ calls' = calls + 1
  /\ last' = Called("close", FALSE, "ok")
  /\ req' = NoReq
  /\ ret' = NoRet
  /\ sent' = <<>>
  /\ IF ~closed
     THEN /\ attch' = "closed"
          /\ closed' = TRUE
          /\ channel' = "None"
          /\ stub' = "None"
          /\ policy' = "None"
          /\ server_version' = NoVersion
     ELSE UNCHANGED <<attch, closed, channel, stub, policy, server_version>>
  /\ UNCHANGED <<simulation_mode, attestation, enclave_signing_key, rpcs>>
  /\ UNCHANGED <<args, rpc_error, pc, exc, disc, trust_root, urpcs, nverify, server_cert>>
  /\ UNCHANGED <<valVars, conVars, outVars>>

Next ==
  \/ BootLoadPolicy
  \/ BootUntrustedCreds
  \/ BootOpenDiscovery
  \/ BootGetServerInfo
  \/ BootGetCertificate
  \/ BootGetQuote
  \/ BootCloseDiscovery
  \/ BootOpenAttested
  \/ UploadModel
  \/ RunModel
  \/ DeleteModel
  \/ Close

Spec == Init /\ [][Next]_vars

\* ------------------------------------------------- session properties (Spec)

ModelOps == {"upload_model", "run_model", "delete_model"}

\* C1: once close() has returned, every later upload_model, run_model or
\* delete_model call ends with the closed-connection error (the code raises
\* ValueError("Illegal operation on closed connection.")) without a call on
\* the channel, and the session never becomes open again: closed stays set
\* and no channel or stub comes back.
C1_ClosedIsTerminal ==
  [][ /\ (closed => closed' /\ channel' = "None" /\ stub' = "None" /\ attch' = "closed")
      /\ ((closed /\ calls' = calls + 1 /\ last'.op \in ModelOps)
            => (last'.outcome = "ValueError" /\ rpcs' = rpcs)) ]_vars

C1_Witness == closed /\ last.op = "run_model" /\ last.outcome = "ValueError"

\* C2: after close() the session holds no enclave signing key, no attestation
\* evidence, no policy and no channel handle.
C2_CloseClearsSecrets ==
  closed => /\ enclave_signing_key = "None"
            /\ attestation = "None"
            /\ policy = "None"
            /\ channel = "None"

\* The evidence the session holds does not verify against the policy the
\* caller named.
EvidenceRejected == ValidateQuote(attestation, Policy_from_file(args.policy)) \in Errors

\* C3: in hardware mode, evidence that fails verification (the quote itself or
\* the claims against the policy) ends the bootstrap with AttestationError: no
\* attested channel, no enclave signing key, the verifier ran once, and
\* GetCertificate (the simulation path) was never called.
C3_AttestationFailureIsFatal ==
  (~simulation_mode /\ attestation # "None" /\ EvidenceRejected)
    => /\ pc = "failed"
       /\ exc = "AttestationError"
       /\ attch = "none"
       /\ channel = "None"
       /\ trust_root = "None"
       /\ enclave_signing_key = "None"
       /\ nverify = 1
       /\ \A i \in 1..Len(urpcs) : urpcs[i] # "GetCertificate"

C3_Witness == exc = "AttestationError" /\ attestation = "evB" /\ pc = "failed"

\* C4 as stated: the enclave signing key is unset or the output of a
\* successful attestation verification, and absent in a simulation session.
C4_KeyOnlyFromAttestation ==
  /\ enclave_signing_key # "None"
       => /\ ~simulation_mode
          /\ attestation # "None"
          /\ enclave_signing_key = ValidateQuote(attestation, Policy_from_file(args.policy))
  /\ simulation_mode => enclave_signing_key = "None"

\* C4 as amended: the enclave signing key is unset, or (hardware mode) the
\* output of a successful attestation verification against the policy, or
\* (simulation mode) the key of the unattested certificate GetCertificate
\* returned, with no evidence held.
C4_KeyFromAttestationOrFetchedCertificate ==
  enclave_signing_key # "None"
    => IF simulation_mode
       THEN /\ attestation = "None"
            /\ nverify = 0
            /\ Len(urpcs) > 0 /\ urpcs[Len(urpcs)] = "GetCertificate"
            /\ enclave_signing_key = get_enclave_signing_key(server_cert)
       ELSE /\ attestation # "None"
            /\ enclave_signing_key = ValidateQuote(attestation, Policy_from_file(args.policy))

C4_Witness == simulation_mode /\ pc = "open" /\ enclave_signing_key = "kM"

\* C5: when the bootstrap has failed, no channel it opened is still open.
C5_NoChannelOpenAfterFailure ==
  pc = "failed" => (disc # "open" /\ attch # "open")

\* C6: a server version the predicate rejects ends the bootstrap with
\* VersionError, and no attested channel has been opened.
C6_VersionGate ==
  /\ (server_version # NoVersion /\ ~supported_server_version(server_version))
       => (pc = "failed" /\ exc = "VersionError")
  /\ exc = "VersionError" => (attch = "none" /\ channel = "None" /\ stub = "None")

C6_Witness == exc = "VersionError" /\ server_version = <<0, 4, 0>>

\* C14: a close() made when the session is already closed raises nothing,
\* closes no channel again and leaves every field of the session as it was.
C14_SecondCloseIsNoOp ==
  [][(closed /\ calls' = calls + 1 /\ last'.op = "close") =>
       /\ last'.outcome = "ok"
       /\ attch' = attch
       /\ disc' = disc
       /\ rpcs' = rpcs
       /\ UNCHANGED fieldVars]_vars

\* A second close() has been made: with no call issued on the channel, the
\* first of the two calls was the close that closed the session.
C14_Witness == closed /\ rpcs = 0 /\ calls = 2 /\ last = Called("close", FALSE, "ok")

\* What holds of a session whose attested channel was opened.
AttestedOpenedAfterChecks ==
  attch # "none" =>
    /\ disc = "closed"
    /\ ~closed => supported_server_version(server_version)
    /\ ~simulation_mode =>
         /\ nverify >= 1
         /\ verify_dcap_attestation(attestation).ok
         /\ verify_claims(verify_dcap_attestation(attestation),
                          Policy_from_file(args.policy)) = "ok"
         /\ server_cert = verify_dcap_attestation(attestation).server_cert
    /\ trust_root = server_cert
    /\ enclave_signing_key = get_enclave_signing_key(trust_root)

\* C15: in a bootstrap that succeeds, the attested channel is opened only
\* when the discovery channel has already been closed, the server's version
\* has passed the version check and, in hardware mode, the evidence has passed
\* verification against the policy; the certificate the attested channel is
\* rooted in is the derived certificate the signing key was taken from.
C15_AttestedChannelOrder ==
  /\ AttestedOpenedAfterChecks
  /\ pc = "attested" => (disc = "closed" /\ attch = "none")
  /\ pc \in {"start", "creds", "connect", "info", "fetch", "close_discovery", "failed"}
       => attch = "none"

C15_Witness == pc = "open" /\ attch = "open" /\ ~simulation_mode /\ attestation = "evA"

\* C16: in hardware mode with no policy given, the bootstrap fails before any
\* network I/O: once it has taken its first step it has failed, no discovery
\* or attested channel was ever opened and no call was issued.
C16_NoPolicyFailsBeforeNetwork ==
  (~args.simulation /\ args.policy = "None" /\ pc # "start") =>
    /\ pc = "failed"
    /\ exc # "None"
    /\ disc = "none"
    /\ attch = "none"
    /\ urpcs = <<>>
    /\ rpcs = 0
    /\ nverify = 0

C16_Witness ==
  ~args.simulation /\ args.policy = "None" /\ args.certificate = "certfile" /\ pc = "failed"

\* C17: a bootstrap asked for with simulation=true takes the simulation path
\* whatever the certificate argument is: in every later state the session is
\* in simulation mode and retains no attestation, no quote was requested or
\* verified, and the attested channel, if opened, is rooted in the certificate
\* GetCertificate returned, not in the certificate argument.
C17_SimulationIgnoresCertificate ==
  (args.simulation /\ pc # "start") =>
    /\ simulation_mode
    /\ attestation = "None"
    /\ nverify = 0
    /\ \A i \in 1..Len(urpcs) : urpcs[i] # "GetSgxQuoteWithCollateral"
    /\ trust_root # "None" =>
         /\ trust_root \in {encode_certificate(der) : der \in DerCerts}
         /\ trust_root # args.certificate
         /\ urpcs = <<"GetServerInfo", "GetCertificate">>

C17_Witness ==
  args.simulation /\ args.certificate = "certfile" /\ pc = "open" /\ attch = "open"

\* What the caller sees of a call that raised RpcError.
RpcErrorIsConnectionError ==
  /\ rpc_error => (pc = "failed" /\ exc = "ConnectionError")
  /\ req.rpc = "RpcError" => last.outcome = "ConnectionError"
  /\ \A i, j \in 1..Len(urpcs) : urpcs[i] = urpcs[j] => i = j

\* C18: an RpcError raised by the call of upload_model, run_model or
\* delete_model, or by a call of the bootstrap, reaches the caller as
\* ConnectionError, and nothing is retried: one invocation of an operation
\* issues its call at most once, the bootstrap issues each of its calls at
\* most once and none after one has failed.
C18_RpcErrorSurfacesNoRetry ==
  [][/\ RpcErrorIsConnectionError'
     /\ calls' = calls + 1 => rpcs' <= rpcs + 1
     /\ calls' = calls => rpcs' = rpcs
     /\ rpc_error => (urpcs' = urpcs /\ rpcs' = rpcs)]_vars

C18_Witness ==
  /\ last = Called("delete_model", FALSE, "ConnectionError")
  /\ req.rpc = "RpcError"
  /\ rpcs = 1
  /\ calls = 1

\* The chunks of the messages in sent that are about tensor index i.
ChunksSent(i) ==
  LET about == SelectSeq(sent, LAMBDA m : m.index = i)
  IN [n \in 1..Len(about) |-> about[n].chunk]

C24_EveryRequestCarriesClientInfo ==
  \A n \in 1..Len(sent) : sent[n].client_info

\* C28: in every state of a constructed session, whatever upload_model,
\* run_model, delete_model, close and context-manager exit calls were made one
\* after the other, closed is true exactly when the channel handle and the
\* stub are both absent: an open session has both, a closed one has neither.
C28_ClosedIffHandlesAbsent ==
  pc = "open" =>
    /\ closed <=> (channel = "None" /\ stub = "None")
    /\ ~closed => (channel # "None" /\ stub # "None" /\ attch = "open")
    /\ closed => attch = "closed"

\* A session that issued a call and was then closed.
C28_Witness ==
  pc = "open" /\ closed /\ rpcs >= 1 /\ last.op = "close" /\ channel = "None" /\ stub = "None"

\* C12: when upload_model or run_model with sign=True returns a response,
\* validate succeeds on that response with the session's retained key and
\* attestation against the descriptor computed from the caller's own request:
\* the SHA-256 of the model bytes for upload_model, the hash of the input
\* tensors and the requested model id for run_model.
C12_SignedReturnValidatesAgainstRequest ==
  (last.sign /\ last.outcome = "ok") =>
    /\ last.op = "upload_model" =>
         UploadValidate(ret, Sha256(req.data), "None", "None", FALSE,
                        enclave_signing_key, simulation_mode).outcome = "ok"
    /\ last.op = "run_model" =>
         RunValidate(ret, req.model_id, TensorsOf(req.inputs), DtypeOf(req.inputs),
                     "None", "None", FALSE,
                     enclave_signing_key, simulation_mode).outcome = "ok"

\* ------------------------------------------- validate on a stored response

\* No connection is involved: the session part of the state stays as the
\* class attributes leave it.
Offline ==
  /\ args = [simulation |-> FALSE, policy |-> "None", certificate |-> "None"]
  /\ pc = "offline"
  /\ exc = "None"
  /\ disc = "none"
  /\ attch = "none"
  /\ trust_root = "None"
  /\ urpcs = <<>>
  /\ nverify = 0
  /\ server_cert = "None"
  /\ rpc_error = FALSE
  /\ FieldsInit
  /\ calls = 0
  /\ rpcs = 0
  /\ last = NoCall
  /\ req = NoReq
  /\ ret = NoRet
  /\ sent = <<>>

SigBy(signer, payload) == IF signer = "None" THEN NoSig ELSE Sign(signer, payload)

ValidateArgs(kind, model_hash, model_id, inputs, policy_file, pol, validate_quote, key, allow) ==
  [kind |-> kind, model_hash |-> model_hash, model_id |-> model_id, inputs |-> inputs,
   policy_file |-> policy_file, policy |-> pol, validate_quote |-> validate_quote,
   enclave_signing_key |-> key, allow_simulation_mode |-> allow]

\* A response as the server produced it (unsigned, or signed by either key;
\* no evidence, verifiable evidence or a bad quote) and a validate call with
\* any arguments: an upload response against a model hash, or a run response
\* against inputs and a model id.
InitControl ==
  \E signer \in {"None", "kE", "kM"}, att \in {"None", "evA", "evBad"},
     policy_file \in {"None", "missing", "fileB"}, pol \in {"None", "polA"},
     validate_quote \in BoolSet, key \in {"None", "kE", "kM"}, allow \in BoolSet,
     id \in ModelIds :
    \/ \E d \in ModelHashes, model_hash \in ModelHashes :
         /\ art = [payload |-> EncodePayload(d, id),
                   signature |-> SigBy(signer, EncodePayload(d, id)), attestation |-> att]
         /\ vargs = ValidateArgs("upload", model_hash, "None", <<>>, policy_file, pol,
                                 validate_quote, key, allow)
    \/ \E d \in SmallInputHashes, u \in SmallInputs, model_id \in ModelIds :
         /\ art = [payload |-> EncodePayload(d, id),
                   signature |-> SigBy(signer, EncodePayload(d, id)), attestation |-> att]
         /\ vargs = ValidateArgs("run", Sha256(<<>>), model_id, u, policy_file, pol,
                                 validate_quote, key, allow)

\* A run response signed by the enclave key, validated with that key against
\* any inputs of up to MaxTensors tensors.
InitBinding ==
  \E att \in {"None", "evA"}, id \in ModelIds, model_id \in ModelIds,
     used \in InputSets, u \in InputSets :
    LET p == EncodePayload(InputHash(TensorsOf(used), DtypeOf(used)), id)
    IN /\ art = [payload |-> p, signature |-> Sign("kE", p), attestation |-> att]
       /\ vargs = ValidateArgs("run", Sha256(<<>>), model_id, u, "None", "None",
                               FALSE, "kE", TRUE)

InitV ==
  /\ Offline
  /\ InitControl \/ InitBinding
  /\ orig = art.payload
  /\ vres = NoResult
  /\ saved = NoSaved
  /\ ConIdle
  /\ OutIdle

\* One position of the stored payload is changed; the signature stays.
Tamper ==
  /\ pc = "offline"
  /\ vres = NoResult
  /\ art.payload = orig
  /\ \/ \E h \in {1, 3} : art' = [art EXCEPT !.payload[1] = h]
     \/ \E d \in ModelHashes \cup SmallInputHashes :
          /\ d # art.payload[2]
          /\ art' = [art EXCEPT !.payload[2] = d]
     \/ \E id \in ModelIds :
          /\ id # art.payload[3]
          /\ art' = [art EXCEPT !.payload[3] = id]
  /\ UNCHANGED <<bootVars, fieldVars, opVars, orig, vargs, vres, saved, conVars, outVars>>

\* response.validate(...) on the stored response.
ValidateStored ==
  /\ pc = "offline"
  /\ vres = NoResult
  /\ vres' = IF vargs.kind = "upload"
             THEN UploadValidate(art, vargs.model_hash, vargs.policy_file, vargs.policy,
                                 vargs.validate_quote, vargs.enclave_signing_key,
                                 vargs.allow_simulation_mode)
             ELSE RunValidate(art, vargs.model_id, TensorsOf(vargs.inputs), DtypeOf(vargs.inputs),
                              vargs.policy_file, vargs.policy,
                              vargs.validate_quote, vargs.enclave_signing_key,
                              vargs.allow_simulation_mode)
  /\ UNCHANGED <<bootVars, fieldVars, opVars, art, orig, vargs, saved, conVars, outVars>>

NextV ==
  \/ Tamper
  \/ ValidateStored

SpecV == InitV /\ [][NextV]_vars

\* --------------------------------------- a response kept as bytes (SpecP)

\* ResponseProof(payload=, signature=, attestation=).SerializeToString(): a
\* field given as None is left unset, and so is an empty bytes field. The
\* bytes are the three fields, each either set to its value or unset (an
\* unset payload is the empty string, an unset signature NoSig, an unset
\* attestation "None").
ResponseProof_SerializeToString(payload, signature, att) ==
  [payload |-> payload,
   signature |-> IF signature = EmptySig THEN NoSig ELSE signature,
   attestation |-> att]

\* ResponseProof.FromString(b) read through its field getters: an unset bytes
\* field reads as the empty byte string and an unset message field as an empty
\* message, never as None.
EmptyEvidence == "evEmpty"
ResponseProof_FromString(b) ==
  [payload |-> b.payload,
   signature |-> IF b.signature = NoSig THEN EmptySig ELSE b.signature,
   attestation |-> IF b.attestation = "None" THEN EmptyEvidence ELSE b.attestation]

\* SignedResponse.as_bytes (lines 213-229).
as_bytes(a) == ResponseProof_SerializeToString(a.payload, a.signature, a.attestation)

\* SignedResponse.load_from_bytes (lines 240-250): the three assignments.
load_from_bytes(b) ==
  LET proof == ResponseProof_FromString(b)
  IN [payload |-> proof.payload, signature |-> proof.signature,
      attestation |-> proof.attestation]

Saved(wire, source, loaded, error) ==
  [wire |-> wire, source |-> source, loaded |-> loaded, error |-> error]

StoredResponse(payload, signer, att) ==
  [payload |-> payload,
   signature |-> IF signer = "empty" THEN EmptySig ELSE SigBy(signer, payload),
   attestation |-> att]

\* A response object as a session returns it or as a caller fills it in:
\* signature None, empty, or made by either key; attestation None, verifiable
\* or not; a payload that parses or one whose length prefix is off; and a
\* validate call with any arguments.
InitP ==
  /\ Offline
  /\ \E signer \in {"None", "empty", "kE", "kM"}, att \in {"None", "evA", "evBad"},
        policy_file \in {"None", "fileB"}, pol \in {"None", "polA"},
        validate_quote \in BoolSet, key \in {"None", "kE"}, allow \in BoolSet,
        id \in ModelIds, header \in {2, 3} :
       \/ \E d \in ModelHashes, model_hash \in ModelHashes :
            /\ art = StoredResponse(<<header, d, id>>, signer, att)
            /\ vargs = ValidateArgs("upload", model_hash, "None", <<>>, policy_file, pol,
                                    validate_quote, key, allow)
       \/ \E d \in SmallInputHashes, u \in SmallInputs, model_id \in ModelIds :
            /\ art = StoredResponse(<<header, d, id>>, signer, att)
            /\ vargs = ValidateArgs("run", Sha256(<<>>), model_id, u, policy_file, pol,
                                    validate_quote, key, allow)
  /\ orig = art.payload
  /\ vres = NoResult
  /\ saved = NoSaved
  /\ ConIdle
  /\ OutIdle

\* response.as_bytes() / save_to_file (lines 197-229).
SaveToBytes ==
  /\ pc = "offline"
  /\ vres = NoResult
  /\ saved = NoSaved
  /\ saved' = Saved(as_bytes(art), art, FALSE, "None")
  /\ UNCHANGED <<bootVars, fieldVars, opVars, art, orig, vargs, vres, conVars, outVars>>

\* load_from_bytes / load_from_file (lines 231-250) into a fresh object of the
\* same class: the assignments, then _load_payload, which for an upload
\* response decodes the payload (lines 312-314).
LoadFromBytes ==
  /\ pc = "offline"
  /\ vres = NoResult
  /\ saved # NoSaved
  /\ ~saved.loaded
  /\ art' = load_from_bytes(saved.wire)
  /\ saved' = Saved(saved.wire, saved.source, TRUE,
                    IF vargs.kind = "upload" /\ ~PbPayload_FromString(saved.wire.payload).ok
                    THEN "DecodeError" ELSE "None")
  /\ UNCHANGED <<bootVars, fieldVars, opVars, orig, vargs, vres, conVars, outVars>>

NextP ==
  \/ SaveToBytes
  \/ LoadFromBytes
  \/ ValidateStored

SpecP == InitP /\ [][NextP]_vars

\* ------------------------------------------ persistence properties (SpecP)

\* C13: after load_from_bytes(as_bytes()) the response holds exactly the
\* payload, signature and attestation it held when it was saved, an absent
\* signature or attestation included, so is_signed() and is_simulation_mode()
\* answer as they did before saving.
C13_LoadRestoresSaved ==
  saved.loaded =>
    /\ art.payload = saved.source.payload
    /\ art.signature = saved.source.signature
    /\ art.attestation = saved.source.attestation
    /\ is_signed(art) = is_signed(saved.source)
    /\ is_simulation_mode(art) = is_simulation_mode(saved.source)

\* C19: validate on a response that carries no signature (none was set, or
\* the signature is empty) ends with SignatureError("Response is not signed")
\* whatever the other arguments are, before the quote is looked at; for a
\* response as the session or the caller built it and for one loaded from
\* bytes alike.
C19_UnsignedFailsFirst ==
  (vres.outcome # "None" /\ art.signature \in {NoSig, EmptySig}) =>
    (vres.outcome = SigNotSigned /\ ~vres.quote_run /\ ~vres.sig_checked)

\* ------------------------------------ threads on one open session (SpecC)

\* The statements of the wrapper, of an operation and of close() run one at a
\* time; nothing in the class orders the statements of two threads. A thread's
\* record says which call it makes, where it stands, how the call ended and
\* whether it has called self._channel.close().
Threads == 1..NThreads
Idle(op) == [op |-> op, pc |-> "idle", outcome |-> "None", released |-> FALSE]
At(t, where) == [thr EXCEPT ![t].pc = where]
Done(t, outcome) == [thr EXCEPT ![t].pc = "done", ![t].outcome = outcome]

\* The session as _connect_server leaves it when it returns: in simulation
\* mode, or in hardware mode under policy polA.
OpenSession ==
  /\ pc = "open"
  /\ exc = "None"
  /\ rpc_error = FALSE
  /\ disc = "closed"
  /\ attch = "open"
  /\ server_version \in {v \in Versions : supported_server_version(v)}
  /\ stub = "ExchangeStub"
  /\ channel = "attested"
  /\ closed = FALSE
  /\ \/ /\ args = [simulation |-> TRUE, policy |-> "None", certificate |-> "None"]
        /\ simulation_mode = TRUE
        /\ policy = "None"
        /\ attestation = "None"
        /\ urpcs = <<"GetServerInfo", "GetCertificate">>
        /\ nverify = 0
        /\ server_cert = encode_certificate("derE")
     \/ /\ args = [simulation |-> FALSE, policy |-> "fileA", certificate |-> "certfile"]
        /\ simulation_mode = FALSE
        /\ policy = Policy_from_file("fileA")
        /\ attestation = "evA"
        /\ urpcs = <<"GetServerInfo", "GetSgxQuoteWithCollateral">>
        /\ nverify = 1
        /\ server_cert = verify_dcap_attestation("evA").server_cert
  /\ trust_root = server_cert
  /\ enclave_signing_key = get_enclave_signing_key(server_cert)

\* Each thread is about to make one call on the shared connection object.
InitC ==
  /\ OpenSession
  /\ calls = 0
  /\ rpcs = 0
  /\ last = NoCall
  /\ req = NoReq
  /\ ret = NoRet
  /\ sent = <<>>
  /\ ValIdle
  /\ OutIdle
  /\ thr \in [Threads -> {Idle(op) : op \in {"upload_model", "run_model", "delete_model", "close"}}]

\* raise_exception_if_conn_closed (lines 476-479) in thread t: the check of
\* self.closed, made once, before the wrapped method starts.
WrapperCheck(t) ==
  /\ thr[t].pc = "idle"
  /\ thr[t].op # "close"
  /\ thr' = IF closed THEN Done(t, "ValueError") ELSE At(t, "passed")
  /\ UNCHANGED <<bootVars, fieldVars, opVars, valVars, outVars>>

\* The wrapped method reads self._stub and starts its call (lines 740-763,
\* 841-863, 895): with _stub already None the attribute access fails.
IssueRpc(t) ==
  /\ thr[t].pc = "passed"
  /\ IF stub = "None"
     THEN /\ thr' = Done(t, "AttributeError")
          /\ rpcs' = rpcs
     ELSE /\ thr' = At(t, "rpc")
          /\ rpcs' = rpcs + 1
  /\ UNCHANGED <<bootVars, fieldVars, calls, last, req, ret, sent, valVars, outVars>>

\* The call ends: with its reply, or with the RpcError the except clause
\* turns into ConnectionError (lines 765-766, 865-866, 897-898). A call on a
\* channel that was closed gets no reply.
CompleteRpc(t) ==
  /\ thr[t].pc = "rpc"
  /\ \E outcome \in {"ok", "ConnectionError"} :
       /\ attch = "closed" => outcome = "ConnectionError"
       /\ thr' = Done(t, outcome)
  /\ UNCHANGED <<bootVars, fieldVars, opVars, valVars, outVars>>

\* close(), line 904: the test of self.closed.
CloseCheck(t) ==
  /\ thr[t].pc = "idle"
  /\ thr[t].op = "close"
  /\ thr' = IF closed THEN Done(t, "ok") ELSE At(t, "release")
  /\ UNCHANGED <<bootVars, fieldVars, opVars, valVars, outVars>>

\* close(), line 905: self._channel.close().
CloseRelease(t) ==
  /\ thr[t].pc = "release"
  /\ IF channel = "None"
     THEN /\ thr' = Done(t, "AttributeError")
          /\ attch' = attch
     ELSE /\ thr' = [thr EXCEPT ![t].pc = "flag", ![t].released = TRUE]
          /\ attch' = "closed"
  /\ UNCHANGED <<args, pc, exc, disc, trust_root, urpcs, nverify, server_cert, rpc_error>>
  /\ UNCHANGED <<fieldVars, opVars, valVars, outVars>>

\* close(), line 906: self.closed = True.
CloseFlag(t) ==
  /\ thr[t].pc = "flag"
  /\ closed' = TRUE
  /\ thr' = At(t, "clear_channel")
  /\ UNCHANGED <<simulation_mode, policy, attestation, enclave_signing_key,
                 server_version, stub, channel>>
  /\ UNCHANGED <<bootVars, opVars, valVars, outVars>>

\* close(), lines 907-910: the four assignments of None, one at a time.
CloseClear(t) ==
  /\ \/ /\ thr[t].pc = "clear_channel"
        /\ channel' = "None"
        /\ thr' = At(t, "clear_stub")
        /\ UNCHANGED <<stub, policy, server_version>>
     \/ /\ thr[t].pc = "clear_stub"
        /\ stub' = "None"
        /\ thr' = At(t, "clear_policy")
        /\ UNCHANGED <<channel, policy, server_version>>
     \/ /\ thr[t].pc = "clear_policy"
        /\ policy' = "None"
        /\ thr' = At(t, "clear_version")
        /\ UNCHANGED <<channel, stub, server_version>>
     \/ /\ thr[t].pc = "clear_version"
        /\ server_version' = NoVersion
        /\ thr' = Done(t, "ok")
        /\ UNCHANGED <<channel, stub, policy>>
  /\ UNCHANGED <<simulation_mode, attestation, enclave_signing_key, closed>>
  /\ UNCHANGED <<bootVars, opVars, valVars, outVars>>

NextC ==
  \/ \E t \in Threads : WrapperCheck(t)
  \/ \E t \in Threads : IssueRpc(t)
  \/ \E t \in Threads : CompleteRpc(t)
  \/ \E t \in Threads : CloseCheck(t)
  \/ \E t \in Threads : CloseRelease(t)
  \/ \E t \in Threads : CloseFlag(t)
  \/ \E t \in Threads : CloseClear(t)

SpecC == InitC /\ [][NextC]_vars

\* ------------------------------------------- concurrency properties (SpecC)

\* C11: once close() has released the channel (its self._channel.close() has
\* run), no upload_model, run_model or delete_model call that has not yet made
\* the wrapper's check passes it: no step takes such a call past the check.
C11_NoCallPassesCheckAfterRelease ==
  [][\A t \in Threads :
       (attch = "closed" /\ thr[t].pc = "idle" /\ thr[t].op \in ModelOps)
         => thr'[t].pc # "passed"]_vars

\* C26: a call that had passed the closed check when close() ran either
\* completes its RPC or fails with ConnectionError: no upload_model, run_model
\* or delete_model call ends with an error of another kind because close()
\* cleared the stub or channel handle it was about to use (ValueError is the
\* closed check's own refusal).
C26_CallPastCheckCompletesOrConnectionError ==
  \A t \in Threads :
    (thr[t].op \in ModelOps /\ thr[t].pc = "done") =>
      thr[t].outcome \in {"ok", "ConnectionError", "ValueError"}

\* The threads that have called self._channel.close().
Releasers == {t \in Threads : thr[t].released}

\* C27: close() calls running at the same time on one open session all
\* return without raising, and the channel is closed exactly once.
C27_ConcurrentCloseOnce ==
  /\ \A t \in Threads :
       (thr[t].op = "close" /\ thr[t].pc = "done") => thr[t].outcome = "ok"
  /\ Cardinality(Releasers) <= 1
  /\ (\E t \in Threads : thr[t].op = "close" /\ thr[t].pc = "done")
       => Cardinality(Releasers) = 1

\* ------------------------------------------------ validate properties (SpecV)

Validated == vres.outcome # "None"

\* validate got as far as decoding the payload: no error of the caller's
\* policy arguments or of the quote ended it before.
ReachedPayload == vres.quote_run \/ ~vargs.validate_quote \/ is_simulation_mode(art)

\* The caller's expected content is what the payload embeds.
ContentMatches ==
  LET payload == PbPayload_FromString(art.payload)
  IN /\ payload.ok
     /\ IF vargs.kind = "upload"
        THEN vargs.model_hash = payload.digest
        ELSE /\ InputHash(TensorsOf(vargs.inputs), DtypeOf(vargs.inputs)) = payload.digest
             /\ vargs.model_id = payload.model_id

\* C7: a response with attestation whose signature is valid for its payload
\* under the enclave signing key validate holds, and whose payload then had
\* one position changed without re-signing, fails validate with SignatureError.
C7_TamperedPayloadFailsWithSignatureError ==
  ( /\ Validated
    /\ art.payload # orig
    /\ ~is_simulation_mode(art)
    /\ ReachedPayload
    /\ vres.key # "None"
    /\ Ed25519Verify(vres.key, art.signature, orig) )
    => vres.outcome \in SignatureErrors

\* C8: validate of a validly signed, unchanged response fails with
\* SignatureError whenever the caller's expected content differs from the
\* content the response was produced for: another model hash (upload), or
\* another input tensor set than one the payload's input hash was computed
\* from, or another model id (run).
C8_DifferentContentFails ==
  ( /\ Validated
    /\ art.payload = orig
    /\ is_signed(art)
    /\ ReachedPayload
    /\ \/ is_simulation_mode(art) /\ vargs.allow_simulation_mode
       \/ ~is_simulation_mode(art) /\ Ed25519Verify(vres.key, art.signature, art.payload) )
    => LET payload == PbPayload_FromString(art.payload)
       IN IF vargs.kind = "upload"
          THEN vargs.model_hash # payload.digest => vres.outcome \in SignatureErrors
          ELSE /\ vargs.model_id # payload.model_id => vres.outcome \in SignatureErrors
               /\ (\E used \in InputSets :
                     /\ InputHash(TensorsOf(used), DtypeOf(used)) = payload.digest
                     /\ used # vargs.inputs)
                    => vres.outcome \in SignatureErrors

\* C9: validate of a signed response without attestation fails with the
\* simulation-mode SignatureError when allow_simulation_mode is False, and
\* returns normally when it is True and the payload embeds the expected content.
C9_SimulationGate ==
  (Validated /\ is_signed(art) /\ is_simulation_mode(art))
    => IF ~vargs.allow_simulation_mode
       THEN vres.outcome = SigSimulation
       ELSE ContentMatches => vres.outcome = "ok"

C9_Witness ==
  /\ Validated /\ is_signed(art) /\ is_simulation_mode(art)
  /\ vargs.allow_simulation_mode /\ ContentMatches
  /\ vres.outcome = "ok"

\* C10: on a response with attestation, a validate call that returns has
\* verified the signature over the payload with the enclave signing key, and
\* a signature that does not verify under that key yields
\* SignatureError("Invalid signature").
C10_SignatureCheckedUnlessSimulation ==
  (Validated /\ ~is_simulation_mode(art))
    => /\ vres.outcome = "ok"
            => (vres.sig_checked /\ Ed25519Verify(vres.key, art.signature, art.payload))
       /\ ( /\ is_signed(art)
            /\ ReachedPayload
            /\ vres.key # "None"
            /\ ~Ed25519Verify(vres.key, art.signature, art.payload) )
            => vres.outcome = SigInvalid

\* C20: for a response that is not in simulation mode, validate decodes the
\* payload only after the signature over the raw payload bytes has verified:
\* a validate that ended in the decoder's error had a signature that verifies
\* under the key it used.
C20_NoDecodeBeforeVerify ==
  (Validated /\ ~is_simulation_mode(art) /\ vres.outcome = "DecodeError") =>
    Ed25519Verify(vres.key, art.signature, art.payload)

\* C21: in validate on a response that is not in simulation mode, the
\* attestation verifier is run only when quote validation is asked for and the
\* caller supplied no enclave signing key; a key the caller supplied is the key
\* the signature check uses, and with validate_quote=False the verifier is
\* never run.
C21_SuppliedKeyIsUsed ==
  (Validated /\ ~is_simulation_mode(art)) =>
    /\ vres.quote_run =>
         (vargs.validate_quote /\ vargs.enclave_signing_key = "None")
    /\ (vargs.enclave_signing_key # "None" /\ vres.outcome \notin Errors) =>
         vres.key = vargs.enclave_signing_key

\* The failures validate documents: SignatureError, AttestationError and the
\* error of a policy file that is not found.
TypedFailures == SignatureErrors \cup {"AttestationError", "FileNotFoundError"}

\* C22: validate ends only by returning or with one of the typed failures
\* (SignatureError, AttestationError, the policy-file error), also when the
\* response is not in simulation mode and no enclave signing key was supplied
\* with validate_quote=False, and when the payload does not decode.
C22_ValidateRaisesOnlyTypedFailures ==
  Validated => vres.outcome \in {"ok"} \cup TypedFailures

\* ------------------------------------ output tensors of a run reply (SpecT)

\* Largest number of output tensors in one run payload.
MaxOutputs == 2

\* TensorInfo.__init__ (lines 323-327): the attributes the constructor
\* assigns, as a record of exactly those.
TensorInfo_init(dims, datum_type, index, index_name) ==
  [dims |-> dims, datum_type |-> datum_type]

\* Tensor.__init__ (lines 334-336).
Tensor_init(info, bytes_data) == [info |-> info, bytes_data |-> bytes_data]

\* The tensors a run payload may hold: info (dims, datum type, positional
\* index, name) and bytes.
PayloadTensors ==
  {[info |-> [dims |-> d, datum_type |-> dt, index |-> i, index_name |-> nm],
    bytes_data |-> <<1, 1>>] :
      d \in {<<2>>, <<1, 2>>}, dt \in DTypes, i \in 0..(MaxOutputs - 1), nm \in {"", "out"}}

\* RunModelResponse.__init__, lines 366-377: one Tensor per tensor of the
\* payload, its TensorInfo built from the four fields of the payload's info.
OutputTensors(payload_tensors) ==
  [n \in 1..Len(payload_tensors) |->
     Tensor_init(TensorInfo_init(payload_tensors[n].info.dims,
                                 payload_tensors[n].info.datum_type,
                                 payload_tensors[n].info.index,
                                 payload_tensors[n].info.index_name),
                 payload_tensors[n].bytes_data)]

\* A decoded run payload with 1..MaxOutputs output tensors; no session and no
\* stored response are involved.
InitT ==
  /\ Offline
  /\ ValIdle
  /\ ConIdle
  /\ out \in {[payload_tensors |-> ts, output_tensors |-> <<>>, built |-> FALSE] :
               ts \in UNION {[1..n -> PayloadTensors] : n \in 1..MaxOutputs}}

BuildOutputTensors ==
  /\ pc = "offline"
  /\ ~out.built
  /\ out' = [payload_tensors |-> out.payload_tensors,
             output_tensors |-> OutputTensors(out.payload_tensors),
             built |-> TRUE]
  /\ UNCHANGED <<bootVars, fieldVars, opVars, valVars, conVars>>

NextT == BuildOutputTensors

SpecT == InitT /\ [][NextT]_vars

\* C25: each output Tensor of a RunModelResponse carries a TensorInfo with
\* all four fields of the payload's tensor info: dims, datum type, positional
\* index and name.
C25_TensorInfoKeepsAllFields ==
  out.built =>
    \A n \in 1..Len(out.payload_tensors) :
      /\ DOMAIN out.output_tensors[n].info = {"dims", "datum_type", "index", "index_name"}
      /\ out.output_tensors[n].info = out.payload_tensors[n].info

====
